---------------------------- MODULE Spec2Model ----------------------------
(***************************************************************************)
(* file-mate: bulk rename (core/rename.py, rename_files) and bulk          *)
(* extension change (core/change_extension.py, change_extensions) over one *)
(* flat directory, with an optional output directory.                      *)
(*                                                                         *)
(* A file name is a sequence of one-character strings, so that suffix,     *)
(* stem, lower-casing, lexicographic order and pattern formatting are      *)
(* computed the way pathlib and str.format compute them.  A directory is a *)
(* function from the names of its entries to the entries.  An entry is a   *)
(* regular file or a symbolic link whose target lies outside the two       *)
(* directories (live: the target exists; not live: the link dangles).      *)
(* The filesystem primitives follow POSIX: rename(2) silently replaces an  *)
(* existing destination entry, be it a file or a symbolic link.            *)
(***************************************************************************)
EXTENDS Integers, Sequences, FiniteSets, TLC

(***************************************************************************)
(* Characters and strings                                                  *)
(***************************************************************************)

\* The characters used, in code-point order (str comparison, used by sorted()).
Alphabet ==
  <<" ", ".", "0", "1", "2", "3", "4", "5", "6", "7", "8", "9",
    "J", "T", "_", "a", "b", "f", "j", "l", "m", "t", "x">>

Ord(c) == CHOOSE k \in 1..Len(Alphabet) : Alphabet[k] = c

\* str.lower() on one character
LowerChar(c) == CASE c = "J" -> "j" [] c = "T" -> "t" [] OTHER -> c

\* str.lower()
Lower(s) == [k \in 1..Len(s) |-> LowerChar(s[k])]

\* str.strip(): leading and trailing blanks removed
RECURSIVE LStrip(_)
LStrip(s) == IF s # <<>> /\ Head(s) = " " THEN LStrip(Tail(s)) ELSE s

RECURSIVE RStrip(_)
RStrip(s) ==
  IF s # <<>> /\ s[Len(s)] = " " THEN RStrip(SubSeq(s, 1, Len(s) - 1)) ELSE s

Strip(s) == RStrip(LStrip(s))

\* str.startswith(p)
StartsWith(s, p) == Len(p) <= Len(s) /\ SubSeq(s, 1, Len(p)) = p

\* a < b for strings: the order sorted() puts the paths of one directory in
StrLess(a, b) ==
  \E k \in 1..(Len(a) + 1) :
    /\ k <= Len(b)
    /\ \A j \in 1..(k - 1) : a[j] = b[j]
    /\ (k = Len(a) + 1 \/ Ord(a[k]) < Ord(b[k]))

\* sorted(S) for a set of names
RECURSIVE Sorted(_)
Sorted(S) ==
  IF S = {} THEN <<>>
  ELSE LET m == CHOOSE x \in S : \A y \in S : y = x \/ StrLess(x, y)
       IN  <<m>> \o Sorted(S \ {m})

\* name.rfind(".") as a 1-based position, 0 when there is no dot
RDot(name) ==
  LET ds == {k \in 1..Len(name) : name[k] = "."}
  IN  IF ds = {} THEN 0 ELSE CHOOSE k \in ds : \A j \in ds : j <= k

\* pathlib PurePath.suffix: the last dot and what follows it, unless the dot
\* is the first or the last character of the name
Suffix(name) ==
  LET i == RDot(name)
  IN  IF 1 < i /\ i < Len(name) THEN SubSeq(name, i, Len(name)) ELSE <<>>

\* The name cut at its first dot instead of its last
StemToFirstDot(name) ==
  LET ds == {k \in 2..Len(name) : name[k] = "."}
  IN  IF ds = {} THEN name
      ELSE SubSeq(name, 1, (CHOOSE k \in ds : \A j \in ds : k <= j) - 1)

\* pathlib PurePath.stem: the name without its suffix
Stem(name) ==
  LET i == RDot(name)
  IN  IF 1 < i /\ i < Len(name) THEN SubSeq(name, 1, i - 1) ELSE name

\* str(n) for n >= 0
RECURSIVE Digits(_)
Digits(n) ==
  LET d == <<Alphabet[3 + (n % 10)]>>
  IN  IF n < 10 THEN d ELSE Digits(n \div 10) \o d

\* Padded with zeros on the right
RECURSIVE ZeroPadRight(_, _)
ZeroPadRight(s, w) == IF Len(s) >= w THEN s ELSE ZeroPadRight(s \o <<"0">>, w)

\* format(n, "0<w>d"): zero-padded on the left to width w
RECURSIVE ZeroPad(_, _)
ZeroPad(s, w) == IF Len(s) >= w THEN s ELSE ZeroPad(<<"0">> \o s, w)


(***************************************************************************)
(* Naming pattern (str.format with the keyword argument i)                 *)
(***************************************************************************)

\* A pattern is a sequence of tokens: a literal character, the replacement
\* field {i} (w = 0) or {i:0<w>d}, or a field str.format rejects.
Lit(c) == [k |-> "lit", c |-> c, w |-> 0]

Fld(w) == [k |-> "i", c |-> "", w |-> w]

\* A replacement field str.format(i=n) rejects: kind "key" such as {j},
\* "spec" such as {i:q}, "pos" such as {}, "attr" such as {i.x}
BadFld(kind) == [k |-> kind, c |-> "", w |-> 0]

\* The exception one token raises: {j} KeyError, {i:q} ValueError,
\* {} IndexError, {i.x} AttributeError
TokenError(t) ==
  CASE t.k = "key"  -> "KeyError"
    [] t.k = "spec" -> "ValueError"
    [] t.k = "pos"  -> "IndexError"
    [] t.k = "attr" -> "AttributeError"
    [] OTHER        -> "none"

\* The field {i:{i}<w}, whose format spec is itself made from the index: for a
\* one-digit index n the spec is "n<w" (fill character n, left-aligned, width
\* w); from 10 on it is "10<w", which is no format spec (ValueError)
FillFld(w) == [k |-> "fill", c |-> "", w |-> w]

RECURSIVE FillRight(_, _, _)
FillRight(s, fill, w) == IF Len(s) >= w THEN s ELSE FillRight(s \o <<fill>>, fill, w)

\* config.pattern.format(i=n): [err, str]
RECURSIVE Format(_, _)
Format(pattern, n) ==
  IF pattern = <<>> THEN [err |-> "none", str |-> <<>>]
  ELSE LET t    == Head(pattern)
           rest == Format(Tail(pattern), n)
       IN  IF TokenError(t) # "none" THEN [err |-> TokenError(t), str |-> <<>>]
           ELSE IF t.k = "fill" /\ n >= 10 THEN [err |-> "ValueError", str |-> <<>>]
           ELSE IF rest.err # "none" THEN rest
           ELSE IF t.k = "lit" THEN [err |-> "none", str |-> <<t.c>> \o rest.str]
           ELSE IF t.k = "fill"
           THEN [err |-> "none", str |-> FillRight(Digits(n), Digits(n)[1], t.w) \o rest.str]
           ELSE [err |-> "none", str |-> ZeroPad(Digits(n), t.w) \o rest.str]

(***************************************************************************)
(* Filesystem                                                              *)
(***************************************************************************)

\* Directory entries: a regular file with its content, or a symbolic link
RegFile(data) == [kind |-> "file", live |-> TRUE, data |-> data]

SymLink(live) == [kind |-> "link", live |-> live, data |-> [d |-> "ext", n |-> <<>>]]

EmptyDir == [n \in {} |-> SymLink(FALSE)]

\* A path is a directory ("src": config.folder, "out": config.output_dir)
\* and a name in it
Path(d, n) == [d |-> d, n |-> n]

\* A filesystem FS is [src, out: directories, outExists: BOOLEAN]
DirOf(FS, d) == IF d = "src" THEN FS.src ELSE FS.out

DirExists(FS, d) == d = "src" \/ FS.outExists

\* os.path.lexists: the directory has an entry of that name
LExists(FS, p) == DirExists(FS, p.d) /\ p.n \in DOMAIN DirOf(FS, p.d)

EntryAt(FS, p) == DirOf(FS, p.d)[p.n]

\* Path.exists(): follows symbolic links, so a dangling link does not exist
Exists(FS, p) ==
  LExists(FS, p) /\ (EntryAt(FS, p).kind = "file" \/ EntryAt(FS, p).live)

\* Path.is_symlink()
IsSymlink(FS, p) == LExists(FS, p) /\ EntryAt(FS, p).kind = "link"

\* Path.is_file(): follows symbolic links
IsFile(FS, p) == Exists(FS, p)

Without(dir, n) == [m \in DOMAIN dir \ {n} |-> dir[m]]

With(dir, n, e) == [m \in DOMAIN dir \cup {n} |-> IF m = n THEN e ELSE dir[m]]

SetDir(FS, d, dir) ==
  IF d = "src" THEN [FS EXCEPT !.src = dir] ELSE [FS EXCEPT !.out = dir]

\* os.rename(src, dst): [err, fs].  The entry at src takes the name dst,
\* replacing whatever entry dst had; renaming a path to itself does nothing.
OsRename(FS, src, dst) ==
  IF ~LExists(FS, src) \/ ~DirExists(FS, dst.d)
  THEN [err |-> "FileNotFoundError", fs |-> FS]
  ELSE IF src = dst THEN [err |-> "none", fs |-> FS]
  ELSE LET e  == EntryAt(FS, src)
           F1 == SetDir(FS, src.d, Without(DirOf(FS, src.d), src.n))
       IN  [err |-> "none", fs |-> SetDir(F1, dst.d, With(DirOf(F1, dst.d), dst.n, e))]

\* Path.rename(target)
PathRename(FS, src, dst) == OsRename(FS, src, dst)

\* shutil.move(src, dst): dst is never a directory here, so it is os.rename;
\* where os.rename fails (no source, no target directory) the copy it falls
\* back to fails the same way
ShutilMove(FS, src, dst) == OsRename(FS, src, dst)

\* Path.mkdir(parents=True, exist_ok=True) on config.output_dir
Mkdir(FS, ok) ==
  IF ok THEN [err |-> "none", fs |-> [FS EXCEPT !.outExists = TRUE, !.out = EmptyDir]]
  ELSE [err |-> "OSError", fs |-> FS]

(***************************************************************************)
(* Selection (the scan at the head of both operations)                     *)
(***************************************************************************)

\* target_dir = config.output_dir or config.folder
TargetDir(cfg) == IF cfg.output_dir THEN "out" ELSE "src"

DotPrefix(e) == IF StartsWith(e, <<".">>) THEN e ELSE <<".">> \o e

\* source_ext_filter: blank entries dropped, the rest lower-cased, stripped and
\* dot-prefixed; the empty set stands for None (both are falsy where it is used)
ExtFilter(exts) ==
  {DotPrefix(Strip(Lower(exts[k]))) : k \in {j \in 1..Len(exts) : Strip(exts[j]) # <<>>}}

\* The prefix compared without regard to case
RenameConsideredAnyCasePrefix(FS, cfg) ==
  LET flt == ExtFilter(cfg.extensions)
  IN  {n \in DOMAIN FS.src :
         /\ IsFile(FS, Path("src", n)) \/ IsSymlink(FS, Path("src", n))
         /\ flt = {} \/ Lower(Suffix(n)) \in flt
         /\ cfg.source_prefix = <<>> \/ StartsWith(Lower(n), Lower(cfg.source_prefix))}

\* rename_files: the names the generator passed to sorted() keeps
RenameConsidered(FS, cfg) ==
  LET flt == ExtFilter(cfg.extensions)
  IN  {n \in DOMAIN FS.src :
         /\ IsFile(FS, Path("src", n)) \/ IsSymlink(FS, Path("src", n))
         /\ flt = {} \/ Lower(Suffix(n)) \in flt
         /\ cfg.source_prefix = <<>> \/ StartsWith(n, cfg.source_prefix)}

\* change_extensions: every regular file and symbolic link of the folder
ChextConsidered(FS, cfg) ==
  {n \in DOMAIN FS.src : IsFile(FS, Path("src", n)) \/ IsSymlink(FS, Path("src", n))}

FilesToConsider(FS, cfg) ==
  IF cfg.mode = "rename" THEN RenameConsidered(FS, cfg) ELSE ChextConsidered(FS, cfg)

\* symlinks_skipped: the symbolic links among the files considered
SymlinksSkipped(FS, cfg) ==
  Cardinality({n \in FilesToConsider(FS, cfg) : IsSymlink(FS, Path("src", n))})

\* The suffix compared with the new extension as written, case and all
AlreadyDoneCaseSensitive(FS, cfg) ==
  {n \in ChextConsidered(FS, cfg) :
     /\ ~IsSymlink(FS, Path("src", n))
     /\ Suffix(n) = cfg.new_extension}

\* already_done_skipped (change_extensions): suffix equals the new extension
AlreadyDone(FS, cfg) ==
  {n \in ChextConsidered(FS, cfg) :
     /\ ~IsSymlink(FS, Path("src", n))
     /\ Lower(Suffix(n)) = Lower(cfg.new_extension)}

\* The candidates in descending order
FilesToProcessDescending(FS, cfg) ==
  LET flt == ExtFilter(cfg.from_extensions)
      S   == IF cfg.mode = "rename"
             THEN {n \in RenameConsidered(FS, cfg) : ~IsSymlink(FS, Path("src", n))}
             ELSE {n \in ChextConsidered(FS, cfg) :
                     /\ ~IsSymlink(FS, Path("src", n))
                     /\ n \notin AlreadyDone(FS, cfg)
                     /\ flt = {} \/ Lower(Suffix(n)) \in flt}
      up  == Sorted(S)
  IN  [k \in 1..Len(up) |-> up[Len(up) + 1 - k]]

\* files_to_process, in sorted order
FilesToProcess(FS, cfg) ==
  LET flt == ExtFilter(cfg.from_extensions)
      S   == IF cfg.mode = "rename"
             THEN {n \in RenameConsidered(FS, cfg) : ~IsSymlink(FS, Path("src", n))}
             ELSE {n \in ChextConsidered(FS, cfg) :
                     /\ ~IsSymlink(FS, Path("src", n))
                     /\ n \notin AlreadyDone(FS, cfg)
                     /\ flt = {} \/ Lower(Suffix(n)) \in flt}
  IN  Sorted(S)

(***************************************************************************)
(* Processing one candidate.  X is the running state of a session:         *)
(* [fs, idx (current_file_index), renamed_count, previewed_count,          *)
(*  processed_count, skipped_conflicts, skipped_errors,                    *)
(*  reports (one console line per candidate), moved (the moves performed),  *)
(*  granted (the indices given to renamed or previewed candidates)]        *)
(***************************************************************************)

MAX_RENAME_ATTEMPTS == 10

\* exceptions the except clauses around pattern.format catch
FormatCaught(err) == err \in {"ValueError", "KeyError"}

\* A console line about one candidate: what == "ok" for "[DRY RUN] old -> new",
\* "Renamed: old -> new" and "Changed: old -> new", "conflict" and "error" for
\* the lines that report a skip
Report(old, new, what) == [old |-> old, new |-> new, what |-> what]

\* Off by one either way: one advance too many, one too few
SearchExhaustedLate(attempt) == attempt > MAX_RENAME_ATTEMPTS

SearchExhaustedEarly(attempt) == attempt + 1 >= MAX_RENAME_ATTEMPTS

\* "if attempt >= MAX_RENAME_ATTEMPTS: break"
SearchExhausted(attempt) == attempt >= MAX_RENAME_ATTEMPTS

\* rename_files, the conflict resolution loop, entered with the name for
\* resolved_index = idx already formatted.
\* [kind: "resolved" | "format_error" | "raised", resolved_index, attempt, new_name]
RECURSIVE ConflictLoop(_, _, _, _, _, _, _)
ConflictLoop(FS, cfg, force, file, idx, attempt, new_name) ==
  LET new_path == Path(TargetDir(cfg), new_name)
      stop     == [kind |-> "resolved", resolved_index |-> idx,
                   attempt |-> attempt, new_name |-> new_name]
  IN  IF Exists(FS, new_path) /\ new_path # Path("src", file)
      THEN IF force THEN stop
           ELSE IF SearchExhausted(attempt) THEN stop
           ELSE LET f == Format(cfg.pattern, idx + 1)
                IN  IF f.err = "none"
                    THEN ConflictLoop(FS, cfg, force, file, idx + 1, attempt + 1,
                                      f.str \o Suffix(file))
                    ELSE [kind |-> IF FormatCaught(f.err) THEN "format_error" ELSE "raised",
                          resolved_index |-> idx + 1, attempt |-> attempt + 1,
                          new_name |-> new_name]
      ELSE stop

\* The search run although force is set
RenameResolveSearching(FS, cfg, force, file, idx) ==
  LET f == Format(cfg.pattern, idx)
  IN  IF f.err # "none"
      THEN [kind |-> IF FormatCaught(f.err) THEN "first_format_error" ELSE "raised",
            resolved_index |-> idx, attempt |-> 0, new_name |-> <<>>]
      ELSE ConflictLoop(FS, cfg, FALSE, file, idx, 0, f.str \o Suffix(file))

\* rename_files, from the head of the loop body to the end of conflict
\* resolution.  kind: "first_format_error" | "format_error" | "raised" |
\* "conflict" | "resolved"
RenameResolve(FS, cfg, force, file, idx) ==
  LET f == Format(cfg.pattern, idx)
  IN  IF f.err # "none"
      THEN [kind |-> IF FormatCaught(f.err) THEN "first_format_error" ELSE "raised",
            resolved_index |-> idx, attempt |-> 0, new_name |-> <<>>]
      ELSE LET r        == ConflictLoop(FS, cfg, force, file, idx, 0, f.str \o Suffix(file))
               new_path == Path(TargetDir(cfg), r.new_name)
           IN  IF r.kind = "resolved" /\ Exists(FS, new_path) /\ ~force
                  /\ new_path # Path("src", file)
               THEN [r EXCEPT !.kind = "conflict"]
               ELSE r

\* The conflict check left out
ChextResolveNoCheck(FS, cfg, force, file) ==
  [kind |-> "resolved", resolved_index |-> 0, attempt |-> 0,
   new_name |-> Stem(file) \o cfg.new_extension]

\* The new extension appended to the whole name instead of replacing the suffix
ChextResolveAppends(FS, cfg, force, file) ==
  LET new_name == file \o cfg.new_extension
      new_path == Path(TargetDir(cfg), new_name)
  IN  [kind |-> IF Exists(FS, new_path) /\ new_path # Path("src", file) /\ ~force
                THEN "conflict" ELSE "resolved",
       resolved_index |-> 0, attempt |-> 0, new_name |-> new_name]

\* change_extensions, the conflict check: no search
ChextResolve(FS, cfg, force, file) ==
  LET new_name == Stem(file) \o cfg.new_extension
      new_path == Path(TargetDir(cfg), new_name)
  IN  [kind |-> IF Exists(FS, new_path) /\ new_path # Path("src", file) /\ ~force
                THEN "conflict" ELSE "resolved",
       resolved_index |-> 0, attempt |-> 0, new_name |-> new_name]

Resolve(FS, cfg, force, file, idx) ==
  IF cfg.mode = "rename" THEN RenameResolve(FS, cfg, force, file, idx)
  ELSE ChextResolve(FS, cfg, force, file)

\* The cursor left where it was when a search is exhausted
SkipCandidateKeepsCursor(X, cfg, file, r) ==
  CASE r.kind = "first_format_error" ->
         [X EXCEPT !.skipped_errors = @ + 1, !.idx = @ + 1,
                   !.reports = Append(@, Report(file, <<>>, "error"))]
    [] r.kind = "format_error" ->
         [X EXCEPT !.skipped_errors = @ + 1,
                   !.reports = Append(@, Report(file, <<>>, "error"))]
    [] r.kind = "conflict" ->
         [X EXCEPT !.skipped_conflicts = @ + 1,
                   !.reports = Append(@, Report(file, r.new_name, "conflict"))]

\* A conflict skip of change_extensions left out of the counters
SkipCandidateConflictUncounted(X, cfg, file, r) ==
  CASE r.kind = "first_format_error" ->
         [X EXCEPT !.skipped_errors = @ + 1, !.idx = @ + 1,
                   !.reports = Append(@, Report(file, <<>>, "error"))]
    [] r.kind = "format_error" ->
         [X EXCEPT !.skipped_errors = @ + 1,
                   !.reports = Append(@, Report(file, <<>>, "error"))]
    [] r.kind = "conflict" /\ cfg.mode = "rename" ->
         [X EXCEPT !.skipped_conflicts = @ + 1, !.idx = @ + 1,
                   !.reports = Append(@, Report(file, r.new_name, "conflict"))]
    [] r.kind = "conflict" /\ cfg.mode = "chext" ->
         [X EXCEPT !.reports = Append(@, Report(file, r.new_name, "conflict"))]

\* A candidate skipped before any move is tried
SkipCandidate(X, cfg, file, r) ==
  CASE r.kind = "first_format_error" ->
         [X EXCEPT !.skipped_errors = @ + 1, !.idx = @ + 1,
                   !.reports = Append(@, Report(file, <<>>, "error"))]
    [] r.kind = "format_error" ->
         [X EXCEPT !.skipped_errors = @ + 1,
                   !.reports = Append(@, Report(file, <<>>, "error"))]
    [] r.kind = "conflict" /\ cfg.mode = "rename" ->
         [X EXCEPT !.skipped_conflicts = @ + 1, !.idx = @ + 1,
                   !.reports = Append(@, Report(file, r.new_name, "conflict"))]
    [] r.kind = "conflict" /\ cfg.mode = "chext" ->
         [X EXCEPT !.skipped_conflicts = @ + 1,
                   !.reports = Append(@, Report(file, r.new_name, "conflict"))]

\* The cursor left at the start index after a preview
PreviewKeepsCursor(X, cfg, file, r) ==
  IF cfg.mode = "rename"
  THEN [X EXCEPT !.previewed_count = @ + 1,
                 !.reports = Append(@, Report(file, r.new_name, "ok")),
                 !.granted = Append(@, r.resolved_index)]
  ELSE [X EXCEPT !.processed_count = @ + 1,
                 !.reports = Append(@, Report(file, r.new_name, "ok"))]

\* The dry-run branch: the candidate is counted and reported, nothing moves
Preview(X, cfg, file, r) ==
  IF cfg.mode = "rename"
  THEN [X EXCEPT !.previewed_count = @ + 1, !.idx = r.resolved_index + 1,
                 !.reports = Append(@, Report(file, r.new_name, "ok")),
                 !.granted = Append(@, r.resolved_index)]
  ELSE [X EXCEPT !.processed_count = @ + 1,
                 !.reports = Append(@, Report(file, r.new_name, "ok"))]

\* The primitive the live branch calls and what it does.  fault # "none": the
\* operating system refuses the call with that exception.
\* [err, fs, prim]
RenameMove(FS, cfg, force, file, r, fault) ==
  LET src == Path("src", file)
      dst == Path(TargetDir(cfg), r.new_name)
  IN  IF cfg.output_dir \/ (force /\ Exists(FS, dst))
      THEN IF fault # "none" THEN [err |-> fault, fs |-> FS, prim |-> "shutil.move"]
           ELSE [prim |-> "shutil.move"] @@ ShutilMove(FS, src, dst)
      ELSE IF ~force /\ Exists(FS, dst)
           THEN [err |-> "FileExistsError", fs |-> FS, prim |-> "none"]
           ELSE IF fault # "none" THEN [err |-> fault, fs |-> FS, prim |-> "Path.rename"]
           ELSE [prim |-> "Path.rename"] @@ PathRename(FS, src, dst)

ChextMove(FS, cfg, force, file, r, fault) ==
  LET src == Path("src", file)
      dst == Path(TargetDir(cfg), r.new_name)
  IN  IF cfg.output_dir \/ (force /\ Exists(FS, dst))
      THEN IF fault # "none" THEN [err |-> fault, fs |-> FS, prim |-> "shutil.move"]
           ELSE [prim |-> "shutil.move"] @@ ShutilMove(FS, src, dst)
      ELSE IF fault # "none" THEN [err |-> fault, fs |-> FS, prim |-> "Path.rename"]
           ELSE [prim |-> "Path.rename"] @@ PathRename(FS, src, dst)

\* "current_file_index += 1" in each except clause of rename_files;
\* change_extensions has no cursor
CursorStepOnError(mode) == IF mode = "rename" THEN 1 ELSE 0

\* Every failure counted as an error
ErrorBucketAlwaysError(err) == "error"

\* The except clauses: FileExistsError is counted as a conflict,
\* PermissionError and every other Exception as an error
ErrorBucket(err) == IF err = "FileExistsError" THEN "conflict" ELSE "error"

\* The try block of the live branch: [err, fs, prim]
Move(FS, cfg, force, file, r, fault) ==
  IF cfg.mode = "rename" THEN RenameMove(FS, cfg, force, file, r, fault)
  ELSE ChextMove(FS, cfg, force, file, r, fault)

\* The live branch with its except clauses
Execute(X, cfg, force, file, r, fault) ==
  LET m   == Move(X.fs, cfg, force, file, r, fault)
      bump == IF cfg.mode = "rename" THEN 1 ELSE 0
      mv  == [from |-> Path("src", file), to |-> Path(TargetDir(cfg), r.new_name),
              prim |-> m.prim, over |-> LExists(X.fs, Path(TargetDir(cfg), r.new_name))]
  IN  CASE m.err = "none" ->
             [X EXCEPT !.fs = m.fs,
                       !.renamed_count = @ + bump,
                       !.processed_count = @ + (1 - bump),
                       !.idx = IF cfg.mode = "rename" THEN r.resolved_index + 1 ELSE @,
                       !.reports = Append(@, Report(file, r.new_name, "ok")),
                       !.moved = Append(@, mv),
                       !.granted = IF cfg.mode = "rename"
                                   THEN Append(@, r.resolved_index) ELSE @]
        [] m.err # "none" /\ ErrorBucket(m.err) = "conflict" ->
             [X EXCEPT !.skipped_conflicts = @ + 1,
                       !.idx = @ + CursorStepOnError(cfg.mode),
                       !.reports = Append(@, Report(file, r.new_name, "conflict"))]
        [] m.err # "none" /\ ErrorBucket(m.err) = "error" ->
             [X EXCEPT !.skipped_errors = @ + 1,
                       !.idx = @ + CursorStepOnError(cfg.mode),
                       !.reports = Append(@, Report(file, r.new_name, "error"))]

(***************************************************************************)
(* The session: rename_files(config, dry_run, yes, force) or               *)
(* change_extensions(config, dry_run, yes, force), one call                *)
(***************************************************************************)

VARIABLES
  cfg,                  \* the config: the arguments given, then the validated model
  folder,               \* config.folder when the config is built: "dir", "file", "missing"
  scan_error,           \* what folder.iterdir() raises at the scan, "none" if nothing
  dry_run, yes, force,  \* the call's flags
  mkdir_ok,             \* whether the operating system lets output_dir be created
  fs,                   \* the filesystem: [src, out, outExists]
  fs0,                  \* the filesystem when the call started
  pc,                   \* "construct", "rejected", "start", "scan", "confirm", "loop",
                        \* "execute", "done", "raised"
  files_to_process,     \* the candidates, sorted
  symlinks_skipped,
  already_done_skipped,
  pos,                  \* position of the loop in files_to_process
  resolution,           \* attempt, resolved_index and new_name of the latest candidate
  current_file_index,
  renamed_count, previewed_count, processed_count,
  skipped_conflicts, skipped_errors,
  reports,              \* the per-candidate console lines so far
  moved,                \* the moves performed so far
  granted,              \* the resolved_index of each candidate renamed or previewed
  confirm_calls,        \* calls of click.confirm
  answer,               \* its answer: "none" until asked, then "yes" or "no"
  faults,               \* refusals by the operating system so far
  move_error,           \* the exception the latest move raised, "none" if it did not
  ret,                  \* the value returned, -1 until the call returns
  exit_status,          \* the command's exit status, -1 until the command ends
  others,               \* the paths at which another actor has created a file
  proposed              \* the "old -> new" lines of the confirmation preview

vars ==
  <<cfg, dry_run, yes, force, mkdir_ok, fs, fs0, pc, files_to_process,
    symlinks_skipped, already_done_skipped, pos, resolution, current_file_index,
    renamed_count, previewed_count, processed_count, skipped_conflicts,
    skipped_errors, reports, moved, granted, confirm_calls, answer, faults,
    move_error, ret, folder, scan_error, exit_status, others, proposed>>

flags == <<dry_run, yes, force, mkdir_ok, fs0, folder, scan_error>>

params == <<cfg, flags>>

\* The running state as the record the per-candidate operators work on
CurX ==
  [fs |-> fs, idx |-> current_file_index, renamed_count |-> renamed_count,
   previewed_count |-> previewed_count, processed_count |-> processed_count,
   skipped_conflicts |-> skipped_conflicts, skipped_errors |-> skipped_errors,
   reports |-> reports, moved |-> moved, granted |-> granted]

SetX(X) ==
  /\ fs' = X.fs
  /\ current_file_index' = X.idx
  /\ renamed_count' = X.renamed_count
  /\ previewed_count' = X.previewed_count
  /\ processed_count' = X.processed_count
  /\ skipped_conflicts' = X.skipped_conflicts
  /\ skipped_errors' = X.skipped_errors
  /\ reports' = X.reports
  /\ moved' = X.moved
  /\ granted' = X.granted

xvars ==
  <<fs, current_file_index, renamed_count, previewed_count, processed_count,
    skipped_conflicts, skipped_errors, reports, moved, granted>>

NoResolution == [kind |-> "none", resolved_index |-> 0, attempt |-> 0, new_name |-> <<>>]

\* ensure_directory: "if not folder.exists() or not folder.is_dir()" raises
EnsureDirectory(kind) == kind = "dir"

\* A start index of 0 let through
ValidStartFromZero(start) == start >= 0

\* validate_start of RenameConfig: "if value < 1" raises
ValidStart(start) == start >= 1

\* validate_and_normalize_new_extension of ChangeExtConfig: [ok, value]
NormalizeNewExtension(value) ==
  LET v == Strip(value)
  IN  IF v = <<>> THEN [ok |-> FALSE, value |-> value]
      ELSE [ok |-> TRUE, value |-> IF StartsWith(v, <<".">>) THEN v ELSE <<".">> \o v]

\* RenameConfig(...) / ChangeExtConfig(...): [ok, cfg]; the pattern, the filters
\* and output_dir have no validator
Validate(c, kind) ==
  IF c.mode = "rename"
  THEN [ok |-> EnsureDirectory(kind) /\ ValidStart(c.start), cfg |-> c]
  ELSE LET e == NormalizeNewExtension(c.new_extension)
       IN  [ok |-> EnsureDirectory(kind) /\ e.ok,
            cfg |-> [c EXCEPT !.new_extension = e.value]]

\* The config is built from the arguments; a validation error ends everything
\* before rename_files / change_extensions is entered
Construct ==
  /\ pc = "construct"
  /\ LET v == Validate(cfg, folder)
     IN  IF v.ok THEN cfg' = v.cfg /\ pc' = "start"
         ELSE cfg' = cfg /\ pc' = "rejected"
  /\ UNCHANGED <<flags, exit_status, others, proposed, fs, files_to_process, symlinks_skipped,
                 already_done_skipped, pos, resolution, current_file_index,
                 renamed_count, previewed_count, processed_count, skipped_conflicts,
                 skipped_errors, reports, moved, granted, confirm_calls, answer,
                 faults, move_error, ret>>

\* No operation returns after a failed mkdir
StopsOnMkdirErrorNever(mode) == FALSE

\* "return 0" after a failed mkdir is in change_extensions only
StopsOnMkdirError(mode) == mode = "chext"

\* target_dir is computed and a missing output directory is created, before
\* anything else and whatever the flags; change_extensions returns 0 when the
\* directory cannot be created, rename_files goes on
EnsureOutputDir ==
  /\ pc = "start"
  /\ LET need == cfg.output_dir /\ ~fs.outExists
         m    == IF need THEN Mkdir(fs, mkdir_ok) ELSE [err |-> "none", fs |-> fs]
         stop == m.err # "none" /\ StopsOnMkdirError(cfg.mode)
     IN  /\ fs' = m.fs
         /\ pc' = IF stop THEN "done" ELSE "scan"
         /\ ret' = IF stop THEN 0 ELSE ret
  /\ UNCHANGED <<params, exit_status, others, proposed, files_to_process, symlinks_skipped, already_done_skipped,
                 pos, resolution, current_file_index, renamed_count, previewed_count,
                 processed_count, skipped_conflicts, skipped_errors, reports, moved,
                 granted, confirm_calls, answer, faults, move_error>>

\* The yes flag ignored
NeedsConfirmationIgnoresYes(dry, y) == ~dry

\* "if not dry_run and not yes:"
NeedsConfirmation(dry, y) == ~dry /\ ~y

\* The early exit never taken
NothingToProcessNever(files) == FALSE

\* "if not files_to_process:", the early exit after the scan
NothingToProcess(files) == files = <<>>

\* What a failing iterdir() leads to: rename_files catches FileNotFoundError
\* and PermissionError and returns 0, change_extensions has no try around it
ScanFailure(mode, err) ==
  IF mode = "rename" /\ err \in {"FileNotFoundError", "PermissionError"}
  THEN "return 0" ELSE "raise"

\* The scan, the symlink filter, the early exit and the counters' initial values
Scan ==
  /\ pc = "scan"
  /\ IF scan_error # "none"
     THEN /\ IF ScanFailure(cfg.mode, scan_error) = "return 0"
             THEN pc' = "done" /\ ret' = 0
             ELSE pc' = "raised" /\ ret' = ret
          /\ UNCHANGED <<files_to_process, symlinks_skipped, already_done_skipped,
                         current_file_index>>
     ELSE /\ files_to_process' = FilesToProcess(fs, cfg)
          /\ symlinks_skipped' = SymlinksSkipped(fs, cfg)
          /\ already_done_skipped' =
               IF cfg.mode = "chext" THEN Cardinality(AlreadyDone(fs, cfg)) ELSE 0
          /\ IF NothingToProcess(files_to_process')
             THEN pc' = "done" /\ ret' = 0 /\ UNCHANGED current_file_index
             ELSE /\ ret' = ret
                  /\ IF NeedsConfirmation(dry_run, yes)
                     THEN pc' = "confirm" /\ UNCHANGED current_file_index
                     ELSE pc' = "loop" /\ current_file_index' = cfg.start
  /\ UNCHANGED <<params, exit_status, others, proposed, fs, pos, resolution, renamed_count,
                 previewed_count, processed_count, skipped_conflicts, skipped_errors,
                 reports, moved, granted, confirm_calls, answer, faults, move_error>>

\* "if preview_count_display >= 5: break"
MaxPreview == 5

\* One "- old -> new" line of the preview.  rename_files:
\* config.pattern.format(i=temp_index) + file_obj.suffix, any exception printed
\* as "Error applying pattern"; change_extensions: file_obj.stem +
\* config.new_extension
ProposedLine(c, file, n) ==
  IF c.mode = "rename"
  THEN LET f == Format(c.pattern, n)
       IN  IF f.err # "none" THEN [old |-> file, new |-> <<>>, ok |-> FALSE]
           ELSE [old |-> file, new |-> f.str \o Suffix(file), ok |-> TRUE]
  ELSE [old |-> file, new |-> Stem(file) \o c.new_extension, ok |-> TRUE]

\* The "--- Proposed Changes ---" block: the first MaxPreview candidates,
\* temp_index running from config.start, one step a line
ProposedChanges(c, files) ==
  LET shown == IF Len(files) < MaxPreview THEN Len(files) ELSE MaxPreview
  IN  [k \in 1..shown |-> ProposedLine(c, files[k], c.start + k - 1)]

\* The confirmation prompt (reached only with dry_run and yes both false):
\* the proposed changes are printed, then click.confirm asks
Confirm ==
  /\ pc = "confirm"
  /\ proposed' = ProposedChanges(cfg, files_to_process)
  /\ \E ans \in BOOLEAN :
       /\ confirm_calls' = confirm_calls + 1
       /\ answer' = IF ans THEN "yes" ELSE "no"
       /\ IF ans
          THEN pc' = "loop" /\ current_file_index' = cfg.start /\ ret' = ret
          ELSE pc' = "done" /\ ret' = 0 /\ UNCHANGED current_file_index
  /\ UNCHANGED <<params, exit_status, others, fs, files_to_process, symlinks_skipped,
                 already_done_skipped, pos, resolution, renamed_count, previewed_count,
                 processed_count, skipped_conflicts, skipped_errors, reports, moved,
                 granted, faults, move_error>>

\* One candidate, from the head of the loop body up to the move: the name is
\* generated, conflicts are resolved, and the candidate is skipped, previewed
\* (dry run) or handed to the move
ResolveCandidate ==
  /\ pc = "loop"
  /\ pos <= Len(files_to_process)
  /\ LET file == files_to_process[pos]
         r    == Resolve(fs, cfg, force, file, current_file_index)
     IN  CASE r.kind = "raised" ->
                /\ pc' = "raised"
                /\ resolution' = r
                /\ UNCHANGED <<xvars, pos>>
           [] r.kind \in {"first_format_error", "format_error", "conflict"} ->
                /\ SetX(SkipCandidate(CurX, cfg, file, r))
                /\ pos' = pos + 1
                /\ resolution' = r
                /\ UNCHANGED pc
           [] r.kind = "resolved" /\ dry_run ->
                /\ SetX(Preview(CurX, cfg, file, r))
                /\ pos' = pos + 1
                /\ resolution' = r
                /\ UNCHANGED pc
           [] r.kind = "resolved" /\ ~dry_run ->
                /\ resolution' = r
                /\ pc' = "execute"
                /\ UNCHANGED <<xvars, pos>>
  /\ UNCHANGED <<params, exit_status, others, proposed, files_to_process, symlinks_skipped, already_done_skipped,
                 confirm_calls, answer, faults, move_error, ret>>

MaxFaults == 1

\* What the operating system may refuse a move with: no permission, a target
\* that exists and cannot be replaced, or another error such as an I/O error
FaultKinds == {"PermissionError", "FileExistsError", "OSError"}

\* The move of the resolved candidate, with the except clauses around it
ExecuteMove ==
  /\ pc = "execute"
  /\ \E fault \in {"none"} \cup (IF faults < MaxFaults THEN FaultKinds ELSE {}) :
       /\ SetX(Execute(CurX, cfg, force, files_to_process[pos], resolution, fault))
       /\ faults' = IF fault = "none" THEN faults ELSE faults + 1
       /\ move_error' = Move(fs, cfg, force, files_to_process[pos], resolution, fault).err
  /\ pos' = pos + 1
  /\ pc' = "loop"
  /\ UNCHANGED <<params, exit_status, others, proposed, files_to_process, symlinks_skipped, already_done_skipped,
                 resolution, confirm_calls, answer, ret>>

MaxOthers == 1

\* The file another actor puts at a path: its content is its own
OtherFile(p) == RegFile([n |-> p.n, d |-> "other"])

\* The residual race: in a run without force, after the candidate's target
\* has been resolved and before it is moved, another actor creates a file at
\* the resolved target path
OtherActorCreates ==
  /\ pc = "execute"
  /\ ~force
  /\ Cardinality(others) < MaxOthers
  /\ LET dst == Path(TargetDir(cfg), resolution.new_name)
     IN  /\ DirExists(fs, dst.d)
         /\ ~LExists(fs, dst)
         /\ fs' = SetDir(fs, dst.d, With(DirOf(fs, dst.d), dst.n, OtherFile(dst)))
         /\ others' = others \cup {dst}
  /\ UNCHANGED <<params, exit_status, proposed, pc, files_to_process,
                 symlinks_skipped, already_done_skipped, pos, resolution,
                 current_file_index,
                 renamed_count, previewed_count, processed_count, skipped_conflicts,
                 skipped_errors, reports, moved, granted, confirm_calls, answer,
                 faults, move_error, ret>>

\* Every candidate handled counted, skipped ones included
FinalCountAllHandled(X, mode, dry) == Len(X.reports)

\* final_count of rename_files, processed_count of change_extensions
FinalCount(X, mode, dry) ==
  IF mode = "rename"
  THEN IF dry THEN X.previewed_count ELSE X.renamed_count
  ELSE X.processed_count

\* The summary and the return
Summarize ==
  /\ pc = "loop"
  /\ pos > Len(files_to_process)
  /\ ret' = FinalCount(CurX, cfg.mode, dry_run)
  /\ pc' = "done"
  /\ UNCHANGED <<params, exit_status, others, proposed, xvars, files_to_process, symlinks_skipped,
                 already_done_skipped, pos, resolution, confirm_calls, answer, faults,
                 move_error>>

\* The status the command ends with: click refuses a folder argument that is
\* not an existing directory with status 2; the command's "except Exception"
\* around the config and the call turns every exception into sys.exit(1)
ExitStatus(kind, at) ==
  IF kind # "dir" THEN 2
  ELSE IF at \in {"rejected", "raised"} THEN 1
  ELSE 0

\* The command ends
CliExit ==
  /\ pc \in {"rejected", "raised", "done"}
  /\ exit_status = -1
  /\ exit_status' = ExitStatus(folder, pc)
  /\ UNCHANGED <<params, others, proposed, xvars, pc, files_to_process, symlinks_skipped,
                 already_done_skipped, pos, resolution, confirm_calls, answer, faults,
                 move_error, ret>>

Next ==
  \/ Construct
  \/ CliExit
  \/ EnsureOutputDir
  \/ Scan
  \/ Confirm
  \/ ResolveCandidate
  \/ OtherActorCreates
  \/ ExecuteMove
  \/ Summarize

(***************************************************************************)
(* The calls explored: configs, flags and directory states                 *)
(***************************************************************************)

MaxStart == 2   \* config.start ranges over 1..MaxStart
MaxRun == 12    \* longest run of consecutive pre-existing target names

T_ == <<".", "t">>

\* the name the pattern f{i} gives index i and suffix .t
FName(i) == <<"f">> \o Digits(i) \o T_

\* "f{i}", and "f", which has no placeholder
PatIndexed == <<Lit("f"), Fld(0)>>

PatConstant == <<Lit("f")>>

RenameCfg(pattern, exts, prefix, start, out) ==
  [mode |-> "rename", pattern |-> pattern, extensions |-> exts,
   source_prefix |-> prefix, start |-> start, output_dir |-> out,
   new_extension |-> <<>>, from_extensions |-> <<>>]

ChextCfg(new_ext, from, out) ==
  [mode |-> "chext", pattern |-> <<>>, extensions |-> <<>>,
   source_prefix |-> <<>>, start |-> 1, output_dir |-> out,
   new_extension |-> new_ext, from_extensions |-> from]

\* A directory from a choice of "absent" | "file" | "live" | "dangling" per name
DirFrom(d, c) ==
  [n \in {m \in DOMAIN c : c[m] # "absent"} |->
     IF c[n] = "file" THEN RegFile(Path(d, n)) ELSE SymLink(c[n] = "live")]

Choices(allowed) ==
  {c \in [DOMAIN allowed -> {"absent", "file", "live", "dangling"}] :
     \A n \in DOMAIN allowed : c[n] \in allowed[n]}

\* f<c>.t .. f<c+n-1>.t, all regular files or all live links
RunDir(d, c, n, kind) ==
  [m \in {FName(i) : i \in c..(c + n - 1)} |->
     IF kind = "file" THEN RegFile(Path(d, m)) ELSE SymLink(TRUE)]

Call(c, d, y, f, mk, src, out, outExists) ==
  [cfg |-> c, dry_run |-> d, yes |-> y, force |-> f, mkdir_ok |-> mk,
   fs |-> [src |-> src, out |-> out, outExists |-> outExists],
   folder |-> "dir", scan_error |-> "none"]

\* output directory: not configured, missing (and creatable or not), or present
OutSetups(content) ==
  { [out |-> FALSE, exists |-> FALSE, mk |-> TRUE, dir |-> EmptyDir],
    [out |-> TRUE, exists |-> FALSE, mk |-> TRUE, dir |-> EmptyDir],
    [out |-> TRUE, exists |-> FALSE, mk |-> FALSE, dir |-> EmptyDir],
    [out |-> TRUE, exists |-> TRUE, mk |-> TRUE, dir |-> EmptyDir],
    [out |-> TRUE, exists |-> TRUE, mk |-> TRUE, dir |-> content] }

\* rename_files in place, default config, over many folders
RenameFolders ==
  {DirFrom("src", c) : c \in Choices(
     (<<"a", ".", "t">> :> {"absent", "file"})
  @@ (<<"b", ".", "j">> :> {"absent", "file"})
  @@ (<<"x", ".", "t">> :> {"absent", "file"})
  @@ (FName(1) :> {"absent", "file", "live", "dangling"})
  @@ (FName(2) :> {"absent", "file", "live"})
  @@ (<<"l", ".", "t">> :> {"absent", "live", "dangling"}))}

RenameCallsA ==
  {Call(RenameCfg(PatIndexed, <<>>, <<>>, 1, FALSE), d, y, f, TRUE, src, EmptyDir, FALSE) :
     d \in BOOLEAN, y \in BOOLEAN, f \in BOOLEAN, src \in RenameFolders}

\* rename_files over a few folders, every config
FewRenameFolders ==
  { DirFrom("src", (<<"a", ".", "t">> :> "file") @@ (<<"b", ".", "j">> :> "file")
                @@ (FName(2) :> "file") @@ (<<"l", ".", "t">> :> "live")),
    DirFrom("src", (<<"a", ".", "t">> :> "file") @@ (<<"x", ".", "T">> :> "file")
                @@ (<<"f", ".", "j">> :> "dangling")) }

RenameCallsB ==
  {Call(RenameCfg(p, e, pre, st, o.out), d, y, f, o.mk, src, o.dir, o.exists) :
     p \in {PatIndexed, PatConstant},
     e \in {<<>>, <<<<" ">>, <<"T">>>>, <<<<".", "j">>>>},
     pre \in {<<>>, <<"f">>},
     st \in 1..MaxStart,
     o \in OutSetups(RunDir("out", 1, 1, "file")),
     d \in BOOLEAN, y \in BOOLEAN, f \in BOOLEAN,
     src \in FewRenameFolders}

\* rename_files against a run of n consecutive taken names from config.start on
RenameCallsC ==
  {Call(RenameCfg(PatIndexed, <<>>, <<>>, st, out), d, TRUE, f, TRUE,
        IF out THEN cand ELSE cand @@ RunDir("src", st, n, kind),
        IF out THEN RunDir("out", st, n, kind) ELSE EmptyDir, out) :
     st \in 1..MaxStart, n \in 0..MaxRun, kind \in {"file", "live"},
     out \in BOOLEAN, d \in BOOLEAN, f \in BOOLEAN,
     cand \in { DirFrom("src", (<<"a", ".", "t">> :> "file")),
                DirFrom("src", (<<"a", ".", "t">> :> "file") @@ (<<"x", ".", "t">> :> "file")) }}

\* the patterns str.format rejects: f{j}, f{i:q}, f{}, f{i.x}
ErrorPatterns == {<<Lit("f"), BadFld(kind)>> : kind \in {"key", "spec", "pos", "attr"}}

\* the empty pattern ""
PatEmpty == <<>>

\* rename_files with a pattern str.format rejects, or with the empty pattern
RenameCallsD ==
  {Call(RenameCfg(p, <<>>, <<>>, st, FALSE), d, y, f, TRUE, src, EmptyDir, FALSE) :
     p \in ErrorPatterns \cup {PatEmpty}, st \in 1..MaxStart,
     d \in BOOLEAN, y \in BOOLEAN, f \in BOOLEAN,
     src \in { DirFrom("src", (<<"a", ".", "t">> :> "file") @@ (<<"x", ".", "t">> :> "file")),
               DirFrom("src", (<<"a", ".", "t">> :> "file") @@ (FName(1) :> "file")) }}

\* "f{i:{i}<1}": f1 .. f9, then ValueError
PatFill == <<Lit("f"), FillFld(1)>>

\* rename_files into a directory where the names from config.start up to f8.t
\* or f9.t are taken, with a pattern that cannot be formatted from index 10 on
RenameCallsE ==
  {Call(RenameCfg(PatFill, <<>>, <<>>, st, TRUE), d, TRUE, f, TRUE,
        cand, RunDir("out", st, last - st + 1, "file"), TRUE) :
     st \in 1..MaxStart, last \in {8, 9}, d \in BOOLEAN, f \in BOOLEAN,
     cand \in { DirFrom("src", (<<"a", ".", "t">> :> "file")),
                DirFrom("src", (<<"a", ".", "t">> :> "file") @@ (<<"x", ".", "t">> :> "file")) }}

\* rename_files in place with extension and prefix filters of either case
FilterFolder ==
  DirFrom("src", (<<"t", ".", "t">> :> "file") @@ (<<"T", ".", "t">> :> "file")
              @@ (<<"t", ".", "T">> :> "file") @@ (<<"t", ".", "j">> :> "file")
              @@ (<<"t">> :> "file") @@ (<<"a", ".", "t">> :> "file")
              @@ (<<"t", "l", ".", "t">> :> "live"))

RenameCallsF ==
  {Call(RenameCfg(PatIndexed, e, pre, 1, FALSE), d, TRUE, f, TRUE, FilterFolder,
        EmptyDir, FALSE) :
     e \in {<<>>, <<<<" ">>>>, <<<<" ">>, <<"T">>>>, <<<<" ", ".", "t", " ">>>>,
            <<<<".", "j">>, <<"m">>>>},
     pre \in {<<>>, <<"t">>, <<"T">>},
     d \in BOOLEAN, f \in BOOLEAN}

\* configs the validators refuse, next to ones they accept: a folder that is
\* missing or a plain file, a start index of 0, a blank new extension, and new
\* extensions that need trimming or a dot
BadFolderCalls ==
  {[Call(IF m = "rename" THEN RenameCfg(PatIndexed, <<>>, <<>>, 1, o)
         ELSE ChextCfg(<<".", "j">>, <<>>, o),
         d, TRUE, f, TRUE, EmptyDir, EmptyDir, o) EXCEPT !.folder = k] :
     m \in {"rename", "chext"},
     k \in {"missing", "file"},
     o \in BOOLEAN, d \in BOOLEAN, f \in BOOLEAN}

BadValueCalls ==
  {Call(c, d, y, f, TRUE,
        DirFrom("src", (<<"a", ".", "t">> :> "file") @@ (<<"x", ".", "J">> :> "file")),
        EmptyDir, FALSE) :
     c \in {RenameCfg(PatIndexed, <<>>, <<>>, 0, o) : o \in BOOLEAN}
           \cup {ChextCfg(e, <<>>, o) :
                   e \in {<<>>, <<" ">>, <<"j">>, <<" ", ".", "j", " ">>, <<" ", "j">>},
                   o \in BOOLEAN},
     d \in BOOLEAN, y \in BOOLEAN, f \in BOOLEAN}

\* the source folder has vanished (FileNotFoundError) or cannot be read
\* (PermissionError) by the time it is scanned
ScanErrorCalls ==
  {[Call(IF m = "rename" THEN RenameCfg(PatIndexed, <<>>, <<>>, 1, o.out)
         ELSE ChextCfg(<<".", "j">>, <<>>, o.out),
         d, y, f, o.mk,
         IF e = "FileNotFoundError" THEN EmptyDir
         ELSE DirFrom("src", (<<"a", ".", "t">> :> "file")),
         o.dir, o.exists) EXCEPT !.scan_error = e] :
     m \in {"rename", "chext"},
     o \in OutSetups(EmptyDir),
     e \in {"FileNotFoundError", "PermissionError"},
     d \in BOOLEAN, y \in BOOLEAN, f \in BOOLEAN}

\* "g{i:02d}" and "g{i:03d}p": the index zero-padded to a width
PaddedPatterns == {<<Lit("g"), Fld(2)>>, <<Lit("g"), Fld(3), Lit("p")>>}

\* the files <pattern at 1>.t .. <pattern at n>.t
PaddedRun(d, p, n) ==
  [m \in {Format(p, i).str \o T_ : i \in 1..n} |-> RegFile(Path(d, m))]

\* rename_files with a padded pattern, into an empty directory or into one
\* where the names of the indices 1 .. 9 are taken
RenameCallsG ==
  {Call(RenameCfg(p, <<>>, <<>>, st, TRUE), d, TRUE, f, TRUE,
        DirFrom("src", (<<"a", ".", "t">> :> "file") @@ (<<"b", ".", "J">> :> "file")
                    @@ (<<"x", ".", "t">> :> "file")),
        PaddedRun("out", p, n), TRUE) :
     p \in PaddedPatterns, st \in 1..MaxStart, n \in {0, 9},
     d \in BOOLEAN, f \in BOOLEAN}

\* change_extensions to .j in place, over many folders
ChextFolders ==
  {DirFrom("src", c) : c \in Choices(
     (<<"a", ".", "t">> :> {"absent", "file"})
  @@ (<<"a", ".", "m">> :> {"absent", "file"})
  @@ (<<"b", ".", "T">> :> {"absent", "file"})
  @@ (<<"x", ".", "J">> :> {"absent", "file"})
  @@ (<<"a", ".", "j">> :> {"absent", "file", "live", "dangling"})
  @@ (<<"l", ".", "t">> :> {"absent", "live", "dangling"}))}

ChextCallsA ==
  {Call(ChextCfg(<<".", "j">>, from, FALSE), d, y, f, TRUE, src, EmptyDir, FALSE) :
     from \in {<<>>, <<<<".", "t">>>>},
     d \in BOOLEAN, y \in BOOLEAN, f \in BOOLEAN, src \in ChextFolders}

\* change_extensions over a few folders, every config
FewChextFolders ==
  { DirFrom("src", (<<"a", ".", "t">> :> "file") @@ (<<"a", ".", "b", ".", "T">> :> "file")
                @@ (<<"b">> :> "file") @@ (<<"l", ".", "t">> :> "live")),
    DirFrom("src", (<<"a", ".", "t">> :> "file") @@ (<<"a", ".", "m">> :> "file")
                @@ (<<"x", ".", "j">> :> "file")) }

ChextCallsB ==
  {Call(ChextCfg(<<".", "j">>, from, o.out), d, y, f, o.mk, src, o.dir, o.exists) :
     from \in {<<>>, <<<<"T">>, <<" ">>>>, <<<<" ">>>>, <<<<".", "m">>>>},
     o \in OutSetups(DirFrom("out", (<<"a", ".", "j">> :> "file"))),
     d \in BOOLEAN, y \in BOOLEAN, f \in BOOLEAN,
     src \in FewChextFolders}

\* change_extensions to an extension with a dot inside ("tar.gz"), in place
\* or into an empty output directory
ChextCallsC ==
  {Call(ChextCfg(<<"m", ".", "j">>, <<>>, o), d, y, f, TRUE,
        DirFrom("src", (<<"a", ".", "t">> :> "file") @@ (<<"b", ".", "j">> :> "file")),
        EmptyDir, o) :
     o \in BOOLEAN, d \in BOOLEAN, y \in BOOLEAN, f \in BOOLEAN}

Calls ==
  RenameCallsA \cup RenameCallsB \cup RenameCallsC \cup RenameCallsD \cup RenameCallsE
    \cup RenameCallsF \cup RenameCallsG \cup BadFolderCalls \cup BadValueCalls \cup ScanErrorCalls
    \cup ChextCallsA \cup ChextCallsB \cup ChextCallsC

Init ==
  \E c \in Calls :
    /\ cfg = c.cfg
    /\ dry_run = c.dry_run
    /\ yes = c.yes
    /\ force = c.force
    /\ mkdir_ok = c.mkdir_ok
    /\ fs = c.fs
    /\ fs0 = c.fs
    /\ folder = c.folder
    /\ scan_error = c.scan_error
    /\ exit_status = -1
    /\ others = {}
    /\ proposed = <<>>
    /\ pc = "construct"
    /\ files_to_process = <<>>
    /\ symlinks_skipped = 0
    /\ already_done_skipped = 0
    /\ pos = 1
    /\ resolution = NoResolution
    /\ current_file_index = 0
    /\ renamed_count = 0
    /\ previewed_count = 0
    /\ processed_count = 0
    /\ skipped_conflicts = 0
    /\ skipped_errors = 0
    /\ reports = <<>>
    /\ moved = <<>>
    /\ granted = <<>>
    /\ confirm_calls = 0
    /\ answer = "none"
    /\ faults = 0
    /\ move_error = "none"
    /\ ret = -1

Spec == Init /\ [][Next]_vars

\* The steps of the program itself: everything but the other actor's
Session ==
  \/ Construct
  \/ CliExit
  \/ EnsureOutputDir
  \/ Scan
  \/ Confirm
  \/ ResolveCandidate
  \/ ExecuteMove
  \/ Summarize

\* The program is sequential code that keeps running: a step it can take is
\* taken in the end, the answer to click.confirm included; the other actor
\* need never act
\* The calls the fair specification starts from: every pattern and validator
\* case, both operations, scan errors
FairCalls ==
  RenameCallsD \cup RenameCallsE \cup RenameCallsG \cup BadValueCalls \cup ScanErrorCalls

FairInit == Init /\ \E c \in FairCalls : cfg = c.cfg /\ fs = c.fs /\ scan_error = c.scan_error

FairSpec == FairInit /\ [][Next]_vars /\ WF_vars(Session)

(***************************************************************************)
(* A whole call as a function of the directory state it starts from, with  *)
(* confirmation skipped or granted and no refusal by the operating system: *)
(* what the same call does when started with other flags from that state   *)
(***************************************************************************)

NewX(FS, start) ==
  [fs |-> FS, idx |-> start, renamed_count |-> 0, previewed_count |-> 0,
   processed_count |-> 0, skipped_conflicts |-> 0, skipped_errors |-> 0,
   reports |-> <<>>, moved |-> <<>>, granted |-> <<>>]

\* The processing loop from candidate k on: [x, raised]
RECURSIVE RunLoop(_, _, _, _, _, _)
RunLoop(X, c, dry, f, files, k) ==
  IF k > Len(files) THEN [x |-> X, raised |-> FALSE]
  ELSE LET file == files[k]
           r    == Resolve(X.fs, c, f, file, X.idx)
       IN  CASE r.kind = "raised" -> [x |-> X, raised |-> TRUE]
             [] r.kind \in {"first_format_error", "format_error", "conflict"} ->
                  RunLoop(SkipCandidate(X, c, file, r), c, dry, f, files, k + 1)
             [] r.kind = "resolved" /\ dry ->
                  RunLoop(Preview(X, c, file, r), c, dry, f, files, k + 1)
             [] r.kind = "resolved" /\ ~dry ->
                  RunLoop(Execute(X, c, f, file, r, "none"), c, dry, f, files, k + 1)

\* The call: [x, raised, ret, scanned]
RunCall(FS, c, dry, f, mk) ==
  LET need  == c.output_dir /\ ~FS.outExists
      m     == IF need THEN Mkdir(FS, mk) ELSE [err |-> "none", fs |-> FS]
      files == FilesToProcess(m.fs, c)
      run   == RunLoop(NewX(m.fs, c.start), c, dry, f, files, 1)
  IN  IF m.err # "none" /\ StopsOnMkdirError(c.mode)
      THEN [x |-> NewX(m.fs, 0), raised |-> FALSE, ret |-> 0, scanned |-> FALSE]
      ELSE IF NothingToProcess(files)
      THEN [x |-> NewX(m.fs, 0), raised |-> FALSE, ret |-> 0, scanned |-> TRUE]
      ELSE [x |-> run.x, raised |-> run.raised, scanned |-> TRUE,
            ret |-> IF run.raised THEN -1 ELSE FinalCount(run.x, c.mode, dry)]

\* The session explored step by step ends as the function says
CallAsFunction ==
  (pc = "done" /\ faults = 0 /\ others = {} /\ answer # "no" /\ scan_error = "none") =>
     LET t == RunCall(fs0, cfg, dry_run, force, mkdir_ok)
     IN  ret = t.ret /\ fs = t.x.fs /\ reports = t.x.reports

(***************************************************************************)
(* Properties                                                              *)
(***************************************************************************)

\* The paths that exist (Path.exists()) in a filesystem
ExistingPaths(FS) ==
  {p \in {Path("src", n) : n \in DOMAIN FS.src} \cup
         (IF FS.outExists THEN {Path("out", n) : n \in DOMAIN FS.out} ELSE {}) :
     EntryAt(FS, p).kind = "file" \/ EntryAt(FS, p).live}

SymlinkNames(dir) == {n \in DOMAIN dir : dir[n].kind = "link"}

C2_DryRunLeavesFilesystem == dry_run => fs = fs0

\* The count and the console lines of the dry run started from the state this
\* call started from
DryTwin == RunCall(fs0, cfg, TRUE, force, mkdir_ok)

LiveCallDone ==
  pc = "done" /\ ~dry_run /\ yes /\ faults = 0 /\ others = {} /\ scan_error = "none"

\* C3: a live call (confirmation skipped, nothing refused, nobody else at
\* work) returns the count the dry run from the same directory state returns
C3_DryCountIsLiveCount == LiveCallDone => ret = DryTwin.ret

\* C4: for every candidate the live call reports what the dry run from the same
\* directory state reports: the same target name, or a skip
C4_DryReportsAreLiveReports == LiveCallDone => reports = DryTwin.x.reports

\* C5: after a negative answer the call returns 0 and the filesystem is exactly
\* as it was before the call
C5_DeclinedLeavesFilesystem == answer = "no" => (ret = 0 /\ fs = fs0)

\* C6: click.confirm is called exactly once in a call with dry_run and yes
\* both false and a non-empty candidate list, never in any other call, and
\* until it has answered yes no file has been renamed or moved
C6_ConfirmOnceBeforeAnyMove ==
  /\ confirm_calls =
       (IF /\ pc \in {"loop", "execute", "done", "raised"}
           /\ ~dry_run /\ ~yes /\ files_to_process # <<>>
        THEN 1 ELSE 0)
  /\ (~yes /\ answer # "yes") =>
       (moved = <<>> /\ fs.src = fs0.src /\ fs.out = fs0.out)

\* C6 witness: a confirmed call has moved a file and ended
C6_Witness ==
  pc = "done" /\ confirm_calls = 1 /\ answer = "yes" /\ moved # <<>>

\* C7: whatever the mode and the flags, every symbolic link of the source
\* directory is still the same link under the same name
C7_SymlinksStay ==
  \A n \in SymlinkNames(fs0.src) : n \in DOMAIN fs.src /\ fs.src[n] = fs0.src[n]

\* The scan has run (change_extensions returns before it when the output
\* directory cannot be created) and has not failed
ScanHasRun ==
  /\ pc \in {"confirm", "loop", "execute", "done", "raised"}
  /\ scan_error = "none"
  /\ ~(cfg.mode = "chext" /\ cfg.output_dir /\ ~fs0.outExists /\ ~mkdir_ok)

\* C8: at the end of a session symlinks_skipped is the number of symbolic
\* links that are direct children of the source directory, whatever the filters
C8_SymlinksAllCounted ==
  (pc = "done" /\ ScanHasRun) =>
     symlinks_skipped = Cardinality(SymlinkNames(fs0.src))

\* The candidate the loop is about to take up, in rename_files without force
AtCandidate ==
  /\ cfg.mode = "rename" /\ ~force
  /\ pc = "loop" /\ pos <= Len(files_to_process)
  /\ Format(cfg.pattern, current_file_index).err = "none"

\* The target name at index i for that candidate is a conflict: it exists and
\* is not the candidate's own path
Taken(i) ==
  LET dst == Path(TargetDir(cfg),
                  Format(cfg.pattern, i).str \o Suffix(files_to_process[pos]))
  IN  Exists(fs, dst) /\ dst # Path("src", files_to_process[pos])

AllTaken(c, n) == \A i \in c..(c + n - 1) : Taken(i)

\* The step skips that candidate as a conflict and changes no file
SkippedAsConflict ==
  /\ pc' = "loop" /\ pos' = pos + 1
  /\ skipped_conflicts' = skipped_conflicts + 1
  /\ reports'[Len(reports')].what = "conflict"
  /\ renamed_count' = renamed_count /\ previewed_count' = previewed_count
  /\ fs' = fs /\ moved' = moved

\* C9: in rename_files with force = False the index is advanced at most 10
\* times per candidate, and a candidate for which the 11 names at indices
\* c..c+10 (c its start index) are all conflicts (they exist and are not its
\* own path) is reported as a conflict and not moved, and no name is created
C9_SearchBound ==
  [][AtCandidate =>
       /\ resolution'.attempt <= 10
       /\ resolution'.resolved_index = current_file_index + resolution'.attempt
       /\ AllTaken(current_file_index, 11) => SkippedAsConflict]_vars

\* C9 witness: a search has given up after 10 advances
C9_Witness ==
  /\ cfg.mode = "rename" /\ ~force
  /\ resolution.kind = "conflict" /\ resolution.attempt = 10

\* C10 as claimed: at most 10 names are examined per file, the first included,
\* so that 10 conflicts at c..c+9 exhaust the search even if c+10 is free
C10_TenNamesExamined ==
  [][AtCandidate =>
       /\ resolution'.attempt + 1 <= 10
       /\ AllTaken(current_file_index, 10) => SkippedAsConflict]_vars

\* C10 amended: at most 11 names are examined per file, the first and up to
\* 10 more; with conflicts at c..c+9 and c+10 free the search resolves at
\* index c+10 and the candidate is not skipped as exhausted
C10_ElevenNamesExamined ==
  [][AtCandidate =>
       /\ resolution'.attempt + 1 <= 11
       /\ (AllTaken(current_file_index, 10) /\ ~Taken(current_file_index + 10)) =>
            /\ resolution'.kind = "resolved"
            /\ resolution'.attempt = 10
            /\ resolution'.resolved_index = current_file_index + 10
            /\ skipped_conflicts' = skipped_conflicts]_vars

\* C10 witness: a search has resolved at the eleventh name
C10_Witness ==
  /\ cfg.mode = "rename" /\ ~force
  /\ resolution.kind = "resolved" /\ resolution.attempt = 10


(***************************************************************************)
(* The candidate in hand: the one at pos, while the loop is about to take  *)
(* it up (pc = "loop") or about to move it (pc = "execute")                *)
(***************************************************************************)

InHand ==
  /\ cfg.mode = "rename"
  /\ pc \in {"loop", "execute"} /\ pos <= Len(files_to_process)
  /\ Format(cfg.pattern, current_file_index).err = "none"

\* The name the pattern gives the candidate in hand at index i
CandName(i) == Format(cfg.pattern, i).str \o Suffix(files_to_process[pos])

CandPath(i) == Path(TargetDir(cfg), CandName(i))

\* The indices one search may examine, from the candidate's start index on
SearchRange == current_file_index..(current_file_index + MAX_RENAME_ATTEMPTS)

FreeIndices == {i \in SearchRange : ~Exists(fs, CandPath(i))}

SmallestFree == CHOOSE i \in FreeIndices : \A j \in FreeIndices : i <= j

\* The first proposed name exists and is another file's
FirstNameTaken ==
  /\ Exists(fs, CandPath(current_file_index))
  /\ CandPath(current_file_index) # Path("src", files_to_process[pos])

\* Every path that exists, the candidate's own path apart, keeps its entry
OthersKeepContent ==
  \A p \in ExistingPaths(fs) \ {Path("src", files_to_process[pos])} :
    LExists(fs', p) /\ EntryAt(fs', p) = EntryAt(fs, p)

\* The step moves the candidate in hand to the name at index i and counts it
RenamedTo(i) ==
  /\ renamed_count' = renamed_count + 1
  /\ skipped_conflicts' = skipped_conflicts /\ skipped_errors' = skipped_errors
  /\ Len(moved') = Len(moved) + 1
  /\ moved'[Len(moved')].from = Path("src", files_to_process[pos])
  /\ moved'[Len(moved')].to = CandPath(i)
  /\ ~LExists(fs', Path("src", files_to_process[pos]))
  /\ LExists(fs', CandPath(i))
  /\ EntryAt(fs', CandPath(i)) = EntryAt(fs, Path("src", files_to_process[pos]))

\* C11: in a live rename_files call with force = False, a candidate whose first
\* proposed name exists (as another file's name) while some name within the
\* search bound is free goes on
\* to the move with the smallest free index, and the move (when the operating
\* system does not refuse it) renames the candidate to the name at that index,
\* counts it as a success and leaves every other existing file as it was
C11_SmallestFreeIndex ==
  [][(InHand /\ ~force /\ ~dry_run /\ FirstNameTaken /\ FreeIndices # {}) =>
       IF pc = "loop"
       THEN pc' = "execute" /\ resolution'.resolved_index = SmallestFree
       ELSE faults' = faults => (RenamedTo(SmallestFree) /\ OthersKeepContent)]_vars


\* The scenario of C12: rename_files in place with the pattern f{i}, no
\* filters and force = False, live, on a folder of two regular files: the
\* file f<start>.t, which has the first proposed name, and one source file
\* with suffix .t whose name is none the pattern gives
ConflictInPlaceScenario ==
  /\ cfg = RenameCfg(PatIndexed, <<>>, <<>>, cfg.start, FALSE)
  /\ ~force /\ ~dry_run
  /\ \E n \in DOMAIN fs0.src :
       /\ DOMAIN fs0.src = {n, FName(cfg.start)}
       /\ n # FName(cfg.start) /\ Head(n) # "f" /\ Suffix(n) = T_
       /\ \A m \in DOMAIN fs0.src : fs0.src[m].kind = "file"

\* C12: in that scenario the call (confirmed, nothing refused) leaves the
\* source file untouched at its original path, returns 0 and counts exactly
\* one conflict skip
C12_ConflictInPlaceSkips ==
  (ConflictInPlaceScenario /\ pc = "done" /\ answer # "no" /\ faults = 0 /\ others = {}) =>
     /\ ret = 0
     /\ skipped_conflicts = 1
     /\ fs.src = fs0.src


\* Move k of the session replaced a file that existed when the call started
\* (another file than the candidate itself)
Overwrote(k) ==
  /\ moved[k].over
  /\ Exists(fs0, moved[k].to)
  /\ moved[k].to # moved[k].from

\* C13: at the end of a live call with force = True no conflict skip has been
\* counted, and for every candidate whose target existed with some content X:
\* the target path exists and holds the content the candidate had, the
\* candidate's original path is gone, every console line about the candidate
\* reports success, and the candidate is counted once in the value returned
C13_ForceOverwrites ==
  (pc = "done" /\ force /\ ~dry_run) =>
     /\ skipped_conflicts = 0
     /\ \A k \in 1..Len(moved) :
          Overwrote(k) =>
            /\ LExists(fs, moved[k].to)
            /\ EntryAt(fs, moved[k].to) = EntryAt(fs0, moved[k].from)
            /\ ~LExists(fs, moved[k].from)
            /\ \A j \in 1..Len(reports) :
                 reports[j].old = moved[k].from.n => reports[j].what = "ok"
            /\ ret = Len(moved)
            /\ Cardinality({j \in 1..Len(moved) : moved[j].from = moved[k].from}) = 1


SearchGivesUp ==
  /\ AtCandidate
  /\ resolution'.kind = "conflict"
  /\ skipped_conflicts' = skipped_conflicts + 1
  /\ pos' = pos + 1

C16_CursorRule ==
  [][(cfg.mode = "rename" /\ pos' = pos + 1) =>
       IF renamed_count' + previewed_count' > renamed_count + previewed_count
       THEN current_file_index' = resolution'.resolved_index + 1
       ELSE /\ skipped_conflicts' + skipped_errors' = skipped_conflicts + skipped_errors + 1
            /\ current_file_index' = current_file_index + 1]_vars


StrictlyIncreasing(seq) ==
  \A j \in 1..Len(seq) : \A k \in 1..Len(seq) : j < k => seq[j] < seq[k]

\* C17: in a rename_files session no index is granted twice: the indices of
\* the candidates renamed or previewed so far are strictly increasing in
\* candidate order, the cursor never decreases, and a step that grants an
\* index grants one at or above the cursor and leaves the cursor just past it
C17_NoIndexGrantedTwice ==
  [][cfg.mode = "rename" =>
       /\ StrictlyIncreasing(granted')
       /\ current_file_index' >= current_file_index
       /\ Len(granted') > Len(granted) =>
            /\ granted'[Len(granted')] >= current_file_index
            /\ current_file_index' = granted'[Len(granted')] + 1]_vars

\* C17 witness: a session has granted two indices that are not neighbours,
\* with a skipped candidate as well
C17_Witness ==
  /\ cfg.mode = "rename" /\ pc = "done"
  /\ Len(granted) >= 2
  /\ granted[2] > granted[1] + 1
  /\ skipped_conflicts + skipped_errors >= 1


\* The pattern cannot be formatted for the candidate the step takes up, at
\* its first index or at one its search advances to
FormatFails ==
  /\ cfg.mode = "rename"
  /\ pc = "loop" /\ pos <= Len(files_to_process)
  /\ resolution'.kind \in {"first_format_error", "format_error", "raised"}

\* C18: whatever exception pattern.format raises for a candidate, the call
\* is not aborted: the candidate is counted as skipped for an error, no file
\* is changed, and the loop goes on with the next candidate
C18_FormatFailureNeverAborts ==
  [][FormatFails =>
       /\ pc' = "loop"
       /\ pos' = pos + 1
       /\ skipped_errors' = skipped_errors + 1
       /\ fs' = fs]_vars


OkReports(r) == {j \in 1..Len(r) : r[j].what = "ok"}

\* C20: the value returned by rename_files and by change_extensions is the
\* number of candidates previewed when dry_run is true and otherwise the
\* number of moves performed; a move is recorded exactly when the step puts
\* the candidate's file at its target path (and removes it from its own path,
\* unless the two are the same), and no file changes in any other step of
\* the session
C20_ReturnValueCountsMoves ==
  [][/\ (pc' = "done" /\ pc # "done") =>
          ret' = IF dry_run THEN Cardinality(OkReports(reports')) ELSE Len(moved')
     /\ Len(moved') = Len(moved) + 1 =>
          LET mv == moved'[Len(moved')]
          IN  /\ LExists(fs', mv.to)
              /\ EntryAt(fs', mv.to) = EntryAt(fs, mv.from)
              /\ mv.to # mv.from => ~LExists(fs', mv.from)
     /\ (others' = others /\ (fs'.src # fs.src \/ fs'.out # fs.out)) =>
          (~dry_run /\ Len(moved') = Len(moved) + 1)]_vars

\* C20 witness: a live call has returned the number of its moves, fewer than
\* its candidates
C20_Witness ==
  /\ pc = "done" /\ ~dry_run
  /\ ret >= 1 /\ ret = Len(moved)
  /\ ret < Len(files_to_process)
  /\ skipped_conflicts + skipped_errors >= 1

\* The state of a session that never started: the config was refused, or is
\* still being built, and nothing on disk has changed
NoSession == pc \in {"construct", "rejected"} /\ fs = fs0 /\ ret = -1

\* C21: a rename config whose naming pattern is empty or cannot be formatted is
\* refused when it is built, so rename_files never starts and the filesystem
\* stays as it was
C21_BadPatternRejected ==
  (cfg.mode = "rename" /\ cfg.pattern \in ErrorPatterns \cup {PatEmpty}) => NoSession

\* A config the validators are to refuse: the folder is missing or is not a
\* directory, the start index is below 1, or the new extension is blank
InvalidConfig ==
  \/ folder # "dir"
  \/ cfg.mode = "rename" /\ cfg.start < 1
  \/ cfg.mode = "chext" /\ \A k \in 1..Len(cfg.new_extension) : cfg.new_extension[k] = " "

\* C22: a config with a missing or non-directory folder, a start index below 1
\* or a new extension that is empty after trimming is refused when it is built:
\* no session starts and the filesystem stays as it was
C22_InvalidConfigRejected == InvalidConfig => NoSession

C22_Witness ==
  /\ pc = "rejected"
  /\ folder = "dir"
  /\ cfg.mode = "chext"
  /\ cfg.new_extension = <<" ">>
  /\ DOMAIN fs.src # {}

\* The regular files of the source folder when the call started
RegularFiles == {n \in DOMAIN fs0.src : fs0.src[n].kind = "file"}

SuffixIsTarget(n) == Lower(Suffix(n)) = Lower(cfg.new_extension)

\* The candidates of change_extensions; given says when a from-filter counts
\* as given
ChextCandidates(given) ==
  {n \in RegularFiles :
     /\ ~SuffixIsTarget(n)
     /\ ~given \/ Lower(Suffix(n)) \in ExtFilter(cfg.from_extensions)}

\* What change_extensions does with a candidate set: these are the files it
\* processes, the regular files bearing the target extension are counted as
\* already matching, and without force no other regular file changes
ChextSelects(cands) ==
  (cfg.mode = "chext" /\ ScanHasRun) =>
     /\ {files_to_process[k] : k \in 1..Len(files_to_process)} = cands
     /\ already_done_skipped = Cardinality({n \in RegularFiles : SuffixIsTarget(n)})
     /\ ~force => \A n \in RegularFiles \ cands :
                    n \in DOMAIN fs.src /\ fs.src[n] = fs0.src[n]

\* C23: in change_extensions a regular file is a candidate exactly when its
\* suffix differs, case-insensitively, from the target extension and either no
\* from-filter was passed or the suffix is in the normalized from-filter; files
\* bearing the target extension are counted as already matching, and without
\* force every non-candidate file stays as it was
C23_ChextCandidates == ChextSelects(ChextCandidates(cfg.from_extensions # <<>>))

\* C23 as amended: a from-filter whose entries are all blank counts as no filter
C23_ChextCandidatesBlankFilterIsNone ==
  ChextSelects(ChextCandidates(ExtFilter(cfg.from_extensions) # {}))

\* C23 witness: a finished run without force that changed a file, counted one
\* as already matching and left one out because of the from-filter
C23_Witness ==
  /\ cfg.mode = "chext" /\ ~force /\ pc = "done"
  /\ moved # <<>>
  /\ already_done_skipped > 0
  /\ ExtFilter(cfg.from_extensions) # {}
  /\ \E n \in RegularFiles : ~SuffixIsTarget(n) /\ n \notin ChextCandidates(TRUE)

\* The candidates of rename_files; given says when an extension filter counts
\* as given
RenameCandidates(given) ==
  {n \in RegularFiles :
     /\ ~given \/ Lower(Suffix(n)) \in ExtFilter(cfg.extensions)
     /\ cfg.source_prefix = <<>> \/ StartsWith(n, cfg.source_prefix)}

\* What rename_files does with a candidate set: these are the files it
\* processes, and no other file is ever the source of a move
RenameSelects(cands) ==
  (cfg.mode = "rename" /\ ScanHasRun) =>
     /\ {files_to_process[k] : k \in 1..Len(files_to_process)} = cands
     /\ \A k \in 1..Len(moved) : moved[k].from.d = "src" /\ moved[k].from.n \in cands

\* C24: in rename_files a regular file is a candidate exactly when (no
\* extension filter was passed or its lower-cased suffix is in the normalized
\* filter) and (no prefix filter was passed or its name starts with the prefix,
\* case-sensitively); a file that is not a candidate is never renamed or moved
C24_RenameCandidates == RenameSelects(RenameCandidates(cfg.extensions # <<>>))

\* C24 as amended: an extension filter whose entries are all blank counts as
\* no filter
C24_RenameCandidatesBlankFilterIsNone ==
  RenameSelects(RenameCandidates(ExtFilter(cfg.extensions) # {}))

\* C24 witness: a finished run that renamed a file and left out one file by
\* its suffix and another, whose name differs from the prefix in case only
C24_Witness ==
  /\ cfg.mode = "rename" /\ pc = "done"
  /\ moved # <<>>
  /\ ExtFilter(cfg.extensions) # {}
  /\ cfg.source_prefix # <<>>
  /\ \E n \in RegularFiles :
       /\ n \notin RenameCandidates(TRUE)
       /\ Lower(Suffix(n)) \in ExtFilter(cfg.extensions)
       /\ StartsWith(Lower(n), Lower(cfg.source_prefix))
  /\ \E n \in RegularFiles :
       /\ StartsWith(n, cfg.source_prefix)
       /\ Lower(Suffix(n)) \notin ExtFilter(cfg.extensions)

\* The name rename_files gives the k-th candidate at index i
NameAt(k, i) == Format(cfg.pattern, i).str \o Suffix(files_to_process[k])

\* The index the k-th candidate (k from 1) is due: config.start + (k - 1)
DueIndex(k) == cfg.start + k - 1

\* None of the names the candidates are due existed when the call started
NoDueNamePreexists ==
  \A k \in 1..Len(files_to_process) :
    /\ Format(cfg.pattern, DueIndex(k)).err = "none"
    /\ ~Exists(fs0, Path(TargetDir(cfg), NameAt(k, DueIndex(k))))

\* C25: rename_files takes the candidates in ascending lexicographic order of
\* their names, and in a run where no due name existed beforehand and no
\* candidate was skipped for a conflict or an error, the k-th candidate (k from
\* 0) gets the pattern at index start + k with its own suffix, so that n
\* candidates get exactly the indices start .. start + n - 1
C25_AscendingOrderAndIndices ==
  (cfg.mode = "rename" /\ ScanHasRun) =>
     /\ \A j, k \in 1..Len(files_to_process) :
          j < k => StrLess(files_to_process[j], files_to_process[k])
     /\ ( /\ pc = "done" /\ answer # "no"
          /\ skipped_conflicts = 0 /\ skipped_errors = 0
          /\ NoDueNamePreexists )
        => /\ granted = [k \in 1..Len(files_to_process) |-> DueIndex(k)]
           /\ reports = [k \in 1..Len(files_to_process) |->
                           Report(files_to_process[k], NameAt(k, DueIndex(k)), "ok")]
           /\ ~dry_run =>
                /\ Len(moved) = Len(files_to_process)
                /\ \A k \in 1..Len(moved) :
                     /\ moved[k].from = Path("src", files_to_process[k])
                     /\ moved[k].to = Path(TargetDir(cfg), NameAt(k, DueIndex(k)))

\* C25 witness: a live run from start = 2 that renamed three candidates of
\* different suffixes to the indices 2, 3 and 4
C25_Witness ==
  /\ cfg.mode = "rename" /\ ~dry_run /\ pc = "done"
  /\ cfg.pattern = PatIndexed /\ cfg.start = 2
  /\ NoDueNamePreexists
  /\ granted = <<2, 3, 4>>
  /\ Len(moved) = 3
  /\ Suffix(files_to_process[1]) # Suffix(files_to_process[2])

\* The target name of the candidate change_extensions is about to take up
ChextTarget == Stem(files_to_process[pos]) \o cfg.new_extension

\* change_extensions without force is about to take up a candidate whose
\* target name exists in the target directory
ChextConflictAhead ==
  /\ cfg.mode = "chext" /\ ~force
  /\ pc = "loop" /\ pos <= Len(files_to_process)
  /\ Exists(fs, Path(TargetDir(cfg), ChextTarget))

OutputDirUncreatable == cfg.output_dir /\ ~fs0.outExists /\ ~mkdir_ok

\* C27: when the configured output directory does not exist and cannot be
\* created, change_extensions returns 0 at once: the folder is not scanned,
\* no candidate is taken up, confirmation is not asked for and the filesystem
\* stays as it was
C27_ChextMkdirFailureReturnsZero ==
  (cfg.mode = "chext" /\ OutputDirUncreatable /\ pc \notin {"construct", "start"}) =>
     /\ pc = "done" /\ ret = 0
     /\ fs = fs0
     /\ files_to_process = <<>> /\ symlinks_skipped = 0 /\ already_done_skipped = 0
     /\ reports = <<>> /\ moved = <<>>
     /\ confirm_calls = 0

\* C27 witness: such a call has returned, live and without yes, from a folder
\* that holds a file whose extension would have been changed
C27_Witness ==
  /\ cfg.mode = "chext" /\ OutputDirUncreatable /\ pc = "done"
  /\ ~dry_run /\ ~yes
  /\ FilesToProcess(fs, cfg) # <<>>

\* iterdir() was called on the source folder and failed
ScanFailed ==
  /\ scan_error # "none"
  /\ pc \in {"done", "raised"}
  /\ ~(cfg.mode = "chext" /\ OutputDirUncreatable)

\* C28: the command's exit status is non-zero exactly when the config was
\* refused or the source folder was missing or unreadable when it was scanned;
\* every other session, whatever it skipped and also when cancelled, ends with
\* status 0
C28_ExitStatus ==
  exit_status # -1 => (exit_status # 0 <=> (pc = "rejected" \/ ScanFailed))

\* C29: when the source folder has vanished or cannot be read at the scan, the
\* session ends with the filesystem exactly as it was: no file moved and no
\* output directory created, in rename_files and in change_extensions
C29_ScanFailureLeavesFilesystem ==
  ScanFailed => (fs = fs0 /\ moved = <<>>)

\* C30: when the scan leaves no candidate, the session is over at once: the
\* call returns 0, confirmation is never asked for, and no file of the source
\* folder or of the output directory is touched, whatever the mode and flags
C30_NoCandidatesNoAction ==
  (ScanHasRun /\ files_to_process = <<>>) =>
     /\ pc = "done" /\ ret = 0
     /\ confirm_calls = 0 /\ answer = "none"
     /\ fs.src = fs0.src /\ fs.out = fs0.out
     /\ moved = <<>> /\ reports = <<>>

\* C30 witness: a live call without yes and with force has ended on a folder
\* that is not empty but holds no candidate
C30_Witness ==
  /\ ScanHasRun /\ files_to_process = <<>> /\ pc = "done"
  /\ ~dry_run /\ ~yes /\ force
  /\ DOMAIN fs0.src # {}
  /\ symlinks_skipped + already_done_skipped > 0

\* t is a final suffix: a dot followed by at least one character, none a dot
IsFinalSuffix(t) ==
  /\ Len(t) >= 2 /\ t[1] = "."
  /\ \A k \in 2..Len(t) : t[k] # "."

\* new is old with its final suffix, if it has one, replaced by ext: old is
\* s \o t with a non-empty s and a final suffix t, and new is s \o ext; or
\* old has no such split and new is old \o ext
ReplacesFinalSuffix(old, new, ext) ==
  LET cuts == {i \in 1..(Len(old) - 2) :
                 IsFinalSuffix(SubSeq(old, i + 1, Len(old)))}
  IN  IF cuts = {} THEN new = old \o ext
      ELSE \E i \in cuts : new = SubSeq(old, 1, i) \o ext

\* C31: in change_extensions the target name of every candidate processed
\* (changed, or previewed in a dry run) is its stem, the name up to and not
\* including the final suffix, followed by the new extension: only the last
\* suffix of a name with several dots is replaced, and a name without a
\* suffix gets the extension appended
C31_ChextKeepsStem ==
  cfg.mode = "chext" =>
     /\ \A k \in 1..Len(reports) :
          reports[k].what = "ok" =>
             ReplacesFinalSuffix(reports[k].old, reports[k].new, cfg.new_extension)
     /\ \A k \in 1..Len(moved) :
          ReplacesFinalSuffix(moved[k].from.n, moved[k].to.n, cfg.new_extension)

\* C31 witness: a live run has changed a name with two dots and a name
\* without a suffix
C31_Witness ==
  /\ cfg.mode = "chext" /\ ~dry_run /\ pc = "done"
  /\ \E j, k \in 1..Len(moved) :
       /\ moved[j].from.n = <<"a", ".", "b", ".", "T">>
       /\ moved[j].to.n = <<"a", ".", "b">> \o cfg.new_extension
       /\ moved[k].from.n = <<"b">>
       /\ moved[k].to.n = <<"b">> \o cfg.new_extension

\* The number a string of decimal digits stands for
RECURSIVE DigitsValue(_)
DigitsValue(s) ==
  IF s = <<>> THEN 0
  ELSE 10 * DigitsValue(SubSeq(s, 1, Len(s) - 1))
         + (CHOOSE d \in 0..9 : Digits(d) = <<s[Len(s)]>>)

\* num is the index i in decimal, padded with zeros on the left to width w
\* and no further
IsZeroPadded(num, i, w) ==
  /\ Len(num) >= 1 /\ Len(num) >= w
  /\ \A k \in 1..Len(num) : \E d \in 0..9 : Digits(d) = <<num[k]>>
  /\ DigitsValue(num) = i
  /\ Len(num) > w => (Len(num) = 1 \/ num[1] # "0")

\* name is the pattern (literal characters around at most one placeholder)
\* with the index i put in, followed by the suffix sfx
RendersIndex(name, pattern, i, sfx) ==
  LET flds == {k \in 1..Len(pattern) : pattern[k].k = "i"}
      lits(a, b) == [k \in 1..(b - a + 1) |-> pattern[a + k - 1].c]
  IN  IF flds = {} THEN name = lits(1, Len(pattern)) \o sfx
      ELSE LET f    == CHOOSE k \in flds : TRUE
               pre  == lits(1, f - 1)
               post == lits(f + 1, Len(pattern)) \o sfx
               n    == Len(name) - Len(pre) - Len(post)
           IN  /\ n >= 1
               /\ SubSeq(name, 1, Len(pre)) = pre
               /\ SubSeq(name, Len(name) - Len(post) + 1, Len(name)) = post
               /\ IsZeroPadded(SubSeq(name, Len(pre) + 1, Len(pre) + n), i, pattern[f].w)

\* The pattern is made of literal characters and at most one {i} or {i:0wd}
PlainPattern ==
  /\ \A k \in 1..Len(cfg.pattern) : cfg.pattern[k].k \in {"lit", "i"}
  /\ Cardinality({k \in 1..Len(cfg.pattern) : cfg.pattern[k].k = "i"}) <= 1

\* C32: in rename_files the name a candidate is given (renamed to, or
\* previewed with) is the pattern with the granted index put in, zero-padded
\* to the width of the placeholder, followed by the candidate's own suffix
\* unchanged; a live run moves the candidate to exactly that name
C32_NameIsPatternAtIndex ==
  [][(cfg.mode = "rename" /\ PlainPattern /\ granted' # granted) =>
       LET g   == granted'[Len(granted')]
           rep == reports'[Len(reports')]
       IN  /\ Len(reports') = Len(reports) + 1
           /\ rep.what = "ok"
           /\ rep.old = files_to_process[pos]
           /\ RendersIndex(rep.new, cfg.pattern, g, Suffix(rep.old))
           /\ ~dry_run => /\ Len(moved') = Len(moved) + 1
                          /\ moved'[Len(moved')].from.n = rep.old
                          /\ moved'[Len(moved')].to.n = rep.new]_vars

\* C32 witness: with the pattern g{i:03d}p a live run has given a.t the index
\* 10 as g010p.t and b.J the index 11 as g011p.J
C32_Witness ==
  /\ cfg.mode = "rename" /\ ~dry_run /\ pc = "done"
  /\ cfg.pattern = <<Lit("g"), Fld(3), Lit("p")>>
  /\ Len(moved) >= 2
  /\ moved[1].from.n = <<"a", ".", "t">>
  /\ moved[1].to.n = <<"g", "0", "1", "0", "p", ".", "t">>
  /\ moved[2].from.n = <<"b", ".", "J">>
  /\ moved[2].to.n = <<"g", "0", "1", "1", "p", ".", "J">>

\* C33: in rename_files a candidate whose generated target path is its own
\* path is a success, never a conflict-skip, in live and in dry runs, with and
\* without force (no refusal by the operating system)
C33_SelfRenameSucceeds ==
  (cfg.mode = "rename" /\ ~cfg.output_dir /\ faults = 0 /\ others = {}) =>
     \A k \in 1..Len(reports) :
        reports[k].new = reports[k].old => reports[k].what = "ok"

\* The candidate in hand has been resolved and another actor has since put a
\* file at its resolved target path
RaceLost ==
  /\ pc = "execute" /\ ~force
  /\ Path(TargetDir(cfg), resolution.new_name) \in others
  /\ EntryAt(fs, Path(TargetDir(cfg), resolution.new_name)) =
       OtherFile(Path(TargetDir(cfg), resolution.new_name))

\* C34: in a run without force, when another actor has created the resolved
\* target path after resolution and before the move, the move step (if the
\* operating system does not refuse it for another reason) skips the
\* candidate and counts a conflict, leaves the other actor's file and the
\* candidate where they are, and the loop goes on with the next candidate; in
\* rename_files and in change_extensions, in place and into an output
\* directory
C34_RaceIsSkippedAsConflict ==
  [][(RaceLost /\ pc' = "loop" /\ faults' = faults) =>
       /\ fs' = fs
       /\ moved' = moved
       /\ skipped_conflicts' = skipped_conflicts + 1
       /\ skipped_errors' = skipped_errors
       /\ renamed_count' = renamed_count /\ processed_count' = processed_count
       /\ pos' = pos + 1]_vars

\* The summary has been reached with every candidate visited once, in order
\* (or the call has returned early: nothing to do, or the answer was no)
Summarized ==
  /\ pc = "done"
  /\ \/ files_to_process = <<>>
     \/ answer = "no"
     \/ /\ Len(reports) = Len(files_to_process)
        /\ \A k \in 1..Len(reports) : reports[k].old = files_to_process[k]

\* C35: every session terminates: once the config is accepted and the folder
\* can be scanned, the session visits each candidate exactly once in order,
\* advances the index at most 10 times for each, and reaches the summary
C35_SessionReachesSummary ==
  /\ [](resolution.attempt <= MAX_RENAME_ATTEMPTS)
  /\ [][pos' = pos \/ pos' = pos + 1]_vars
  /\ (pc = "start" /\ scan_error = "none") ~> Summarized

\* The candidates counted as successes: renamed or previewed (rename_files),
\* processed (change_extensions)
Successes == renamed_count + previewed_count + processed_count

\* The session has been through its processing loop and is at its summary
AtSummary ==
  pc = "done" /\ scan_error = "none" /\ files_to_process # <<>> /\ answer # "no"

\* C36: every candidate the loop is done with is counted in exactly one
\* bucket, so that at the summary of a session that reached processing
\* successes + conflict-skips + error-skips is the number of candidates, in
\* rename_files and in change_extensions
C36_EveryCandidateInOneBucket ==
  /\ Successes + skipped_conflicts + skipped_errors = pos - 1
  /\ Successes + skipped_conflicts + skipped_errors = Len(reports)
  /\ AtSummary => Successes + skipped_conflicts + skipped_errors = Len(files_to_process)

\* C36 witness: a live session is at its summary with a success, a
\* conflict-skip and an error-skip
C36_Witness ==
  /\ AtSummary /\ ~dry_run
  /\ Successes > 0 /\ skipped_conflicts > 0 /\ skipped_errors > 0

\* C37: within one session no file is moved twice: a path at which the
\* session has placed a candidate is never the source of a later move of the
\* same session, with force or without
C37_MovedAtMostOnce ==
  \A j \in 1..Len(moved) : \A k \in 1..Len(moved) :
     j < k => moved[k].from # moved[j].to

\* The move a step of the session has just made, and whether its target was
\* there (as a directory entry) when the primitive was called
JustMoved == Len(moved') = Len(moved) + 1
LastMove == moved'[Len(moved')]

\* C38: in both modes Path.rename is called only when no output directory is
\* configured and nothing is at the target, so the move replaces nothing;
\* whenever an output directory is configured, or force is set and the target
\* exists, shutil.move is called (no other actor touching the folder)
C38_PrimitiveUsed ==
  [][(JustMoved /\ others = {}) =>
       /\ LastMove.prim = "Path.rename" =>
            (~cfg.output_dir /\ ~LExists(fs, LastMove.to))
       /\ (cfg.output_dir \/ (force /\ LExists(fs, LastMove.to))) =>
            LastMove.prim = "shutil.move"]_vars

\* The user has confirmed and the processing that follows has ended, with no
\* refusal by the operating system and no other actor in the folder
ConfirmedAndDone ==
  pc = "done" /\ answer = "yes" /\ faults = 0 /\ others = {}

\* C39: when the user confirms a rename_files session, each change
\* "old -> new" the confirmation preview has shown (a line that proposes
\* another name than the file has) is the name that file is given by the
\* processing that follows
C39_PreviewIsWhatHappens ==
  (cfg.mode = "rename" /\ ConfirmedAndDone) =>
    \A k \in 1..Len(proposed) :
       (proposed[k].ok /\ proposed[k].new # proposed[k].old) =>
         reports[k] = Report(proposed[k].old, proposed[k].new, "ok")

\* A live change_extensions call has returned and was fully successful: it had
\* candidates, changed every one of them, skipped none for a conflict or an
\* error, met no refusal and no other actor
ChextFullySuccessful ==
  /\ cfg.mode = "chext" /\ pc = "done" /\ ~dry_run /\ answer # "no"
  /\ scan_error = "none" /\ faults = 0 /\ others = {}
  /\ files_to_process # <<>>
  /\ skipped_conflicts = 0 /\ skipped_errors = 0
  /\ ret = Len(files_to_process)

\* change_extensions called again, same config and flags, on the folder as the
\* first call left it
SecondRun == RunCall(fs, cfg, dry_run, force, mkdir_ok)

\* C40: change_extensions is idempotent after a fully successful run: called
\* again with the same config on the resulting folder it finds no candidate,
\* changes nothing and returns 0
C40_ChextIdempotent ==
  ChextFullySuccessful =>
    /\ FilesToProcess(fs, cfg) = <<>>
    /\ SecondRun.ret = 0
    /\ SecondRun.x.fs = fs

=============================================================================
